---- MODULE Spec2Model ----
(***************************************************************************)
(* TF-IDF inverted index of the search application:                        *)
(*   backend/apps/search/services/preprocessor.py  (text normalisation)    *)
(*   backend/apps/search/services/indexer.py       (IndexBuilder)          *)
(*   backend/apps/search/services/search.py        (SearchEngine, cache)   *)
(*   backend/apps/search/models.py                 (tables)                *)
(*                                                                         *)
(* Texts are sequences of raw words.  Floating point weights are kept in   *)
(* millionths (fixed point): ln is a table of round(ln(n) * 10^6).         *)
(***************************************************************************)
EXTENDS Integers, Sequences, FiniteSets, TLC

(***************************************************************************)
(* Bounds of the model.                                                    *)
(***************************************************************************)
\* Publications created by the crawler / importer in one run of the model.
MaxDocs == 2
\* Calls of build_index on one IndexBuilder instance.
MaxBuilds == 2

(***************************************************************************)
(* Generic helpers.                                                        *)
(***************************************************************************)
Range(s) == {s[i] : i \in DOMAIN s}

Min(a, b) == IF a <= b THEN a ELSE b

Max(a, b) == IF a >= b THEN a ELSE b

RECURSIVE SumOver(_, _)
\* Sum of f[x] for x in the finite set S.
SumOver(f, S) ==
    IF S = {} THEN 0
    ELSE LET x == CHOOSE y \in S : TRUE IN f[x] + SumOver(f, S \ {x})

\* Number of positions of seq holding x.
Occurrences(seq, x) == Cardinality({i \in DOMAIN seq : seq[i] = x})

(***************************************************************************)
(* Preprocessor (preprocessor.py).                                         *)
(***************************************************************************)
\* Raw words the model's texts are made of: lower-case, two or more
\* characters, no URL, no e-mail address, no punctuation, so that the
\* cleaning steps before the tokenizer leave them as they are.
Words == {"python", "programming", "language", "snake", "reptile", "code",
          "software", "the", "42"}

\* Words found in the stop word list.
StopWords == {"the"}

\* Words for which str.isdigit() holds.
DigitWords == {"42"}

\* PorterStemmer.stem on the model's words.
Stem(w) ==
    CASE w = "programming" -> "program"
      [] w = "language"    -> "languag"
      [] w = "reptile"     -> "reptil"
      [] w = "software"    -> "softwar"
      [] OTHER             -> w

RECURSIVE StemAll(_)
StemAll(tokens) ==
    IF tokens = <<>> THEN <<>>
    ELSE <<Stem(Head(tokens))>> \o StemAll(Tail(tokens))

\* TextPreprocessor.preprocess(text, return_tokens=True): empty text gives no
\* token; stop words and pure numbers are skipped, the rest is stemmed.
Keep(w) == w \notin StopWords /\ w \notin DigitWords

preprocess_text(text) ==
    IF text = <<>> THEN <<>>
    ELSE StemAll(SelectSeq(text, Keep))

(***************************************************************************)
(* Scoring (indexer.py): weights in millionths.                            *)
(***************************************************************************)
\* round(ln(n) * 10^6) for n = 1 .. 40.
LnTable ==
    <<0, 693147, 1098612, 1386294, 1609438, 1791759, 1945910, 2079442,
      2197225, 2302585, 2397895, 2484907, 2564949, 2639057, 2708050,
      2772589, 2833213, 2890372, 2944439, 2995732, 3044522, 3091042,
      3135494, 3178054, 3218876, 3258097, 3295837, 3332205, 3367296,
      3401197, 3433987, 3465736, 3496508, 3526361, 3555348, 3583519,
      3610918, 3637586, 3663562, 3688879>>

\* math.log(total_docs / doc_freq), for total_docs >= 1 and doc_freq >= 1.
Log(total_docs, doc_freq) == LnTable[total_docs] - LnTable[doc_freq]

\* idf = log(total_docs / doc_freq) if doc_freq > 0 else 0
Idf(total_docs, doc_freq) ==
    IF doc_freq > 0 THEN Log(total_docs, doc_freq) ELSE 0

\* tfidf = tf * idf
TfIdf(tf, total_docs, doc_freq) == tf * Idf(total_docs, doc_freq)

(***************************************************************************)
(* Tables (models.py).                                                     *)
(*   store : the Publication table, a sequence; the position is the id.    *)
(*   index : the InvertedIndexEntry table, a set of rows.                  *)
(***************************************************************************)
\* A Publication row as the crawler creates it (searchable_content blank).
Publication(title, abstract) ==
    [title |-> title, abstract |-> abstract, searchable_content |-> <<>>]

\* The publications the crawler can find: distinct, non-empty titles.
Found ==
    { Publication(<<"python">>, <<>>),
      Publication(<<"the", "python">>, <<"python">>),
      Publication(<<"programming">>, <<>>),
      Publication(<<"python", "programming">>, <<"the">>),
      Publication(<<"the">>, <<"42">>) }

\* The corpus of test_tfidf_ranking: documents 1, 2 and 3.
ScenarioA ==
    << Publication(<<"python", "programming", "language">>, <<>>),
       Publication(<<"python", "snake", "reptile">>, <<>>),
       Publication(<<"python", "programming", "code", "software">>, <<>>) >>

\* An InvertedIndexEntry row.
InvertedIndexEntry(term, publication_id, tfidf_score, term_frequency) ==
    [term |-> term, publication_id |-> publication_id,
     tfidf_score |-> tfidf_score, term_frequency |-> term_frequency]

\* unique_together = ['term', 'publication']: the rows of one pair.
SameKey(r1, r2) ==
    r1.term = r2.term /\ r1.publication_id = r2.publication_id

\* Mutant of BulkCreate: the table has no unique constraint.
BulkCreateUnchecked(table, entries) ==
    [ok |-> TRUE, table |-> table \cup entries]

\* bulk_create inside one transaction: all rows, or an IntegrityError and none.
BulkCreate(table, entries) ==
    IF \E e \in entries : \E r \in table : SameKey(e, r)
    THEN [ok |-> FALSE, table |-> table]
    ELSE [ok |-> TRUE, table |-> table \cup entries]

\* Mutant of Cascade: the rows of a deleted publication stay.
CascadeNone(table, pubs) == table

\* on_delete=models.CASCADE: the rows left once only `pubs` are stored.
Cascade(table, pubs) == {r \in table : r.publication_id \in DOMAIN pubs}

(***************************************************************************)
(* IndexBuilder (indexer.py).                                              *)
(***************************************************************************)
\* A defaultdict(int) with no key.
EmptyCounts == [t \in {} |-> 0]

\* Mutant of Incr: an occurrence after the first is not counted.
IncrOnce(counts, key) ==
    [t \in DOMAIN counts \cup {key} |-> IF t = key THEN 1 ELSE counts[t]]

\* counts[key] += 1 on a defaultdict(int).
Incr(counts, key) ==
    IF key \in DOMAIN counts
    THEN [counts EXCEPT ![key] = @ + 1]
    ELSE [t \in DOMAIN counts \cup {key} |->
             IF t = key THEN 1 ELSE counts[t]]

RECURSIVE CountInto(_, _)
\* for token in tokens: counts[token] += 1
CountInto(counts, tokens) ==
    IF tokens = <<>> THEN counts
    ELSE CountInto(Incr(counts, Head(tokens)), Tail(tokens))

\* f"{pub.title} {pub.abstract}"
Content(pub) == pub.title \o pub.abstract

\* The key of doc_terms for publication d replaced by term_freq.
PutDoc(doc_terms, d, term_freq) ==
    [x \in DOMAIN doc_terms \cup {d} |->
        IF x = d THEN term_freq ELSE doc_terms[x]]

RECURSIVE ScanPublications(_, _, _, _)
\* The loop over the publications (newest first): the term frequencies of each
\* document, the instance's term_doc_freq counted in the same loop, and the
\* searchable_content saved on each publication.
ScanPublications(i, pubs, doc_terms, tdf) ==
    IF i = 0
    THEN [store |-> pubs, doc_terms |-> doc_terms, term_doc_freq |-> tdf]
    ELSE LET tokens == preprocess_text(Content(pubs[i])) IN
         ScanPublications(
             i - 1,
             [pubs EXCEPT ![i].searchable_content = tokens],
             PutDoc(doc_terms, i, CountInto(EmptyCounts, tokens)),
             CountInto(tdf, tokens))

\* entries_to_create: one row per (document, term) of doc_terms.
BuildEntries(doc_terms, tdf, total_docs) ==
    UNION { { InvertedIndexEntry(
                  t, d, TfIdf(doc_terms[d][t], total_docs, tdf[t]),
                  doc_terms[d][t]) : t \in DOMAIN doc_terms[d] }
            : d \in DOMAIN doc_terms }

\* build_index after the count and the delete: scan, weigh, bulk_create.
\* `table` is the index table as it is when bulk_create runs.
FinishBuild(pubs, table, tdf, total_docs) ==
    LET scan    == ScanPublications(Len(pubs), pubs, EmptyCounts, tdf)
        entries == BuildEntries(scan.doc_terms, scan.term_doc_freq, total_docs)
        made    == BulkCreate(table, entries)
    IN  [store |-> scan.store,
         index |-> made.table,
         term_doc_freq |-> scan.term_doc_freq,
         ret |-> IF made.ok
                 THEN [op |-> "build_index", status |-> "success",
                       documents_indexed |-> total_docs,
                       entries_created |-> Cardinality(entries),
                       unique_terms |->
                           Cardinality(DOMAIN scan.term_doc_freq)]
                 ELSE [op |-> "build_index", status |-> "IntegrityError"]]

\* Mutant of BuildIndex: no early return when there is no publication.
BuildIndexNoEarlyReturn(pubs, table, tdf) ==
    FinishBuild(pubs, {}, tdf, Len(pubs))

\* build_index as one call: no publication returns early and leaves the
\* index as it is; otherwise the index is cleared and built again.
BuildIndex(pubs, table, tdf) ==
    IF Len(pubs) = 0
    THEN [store |-> pubs, index |-> table, term_doc_freq |-> tdf,
          ret |-> [op |-> "build_index", status |-> "no_documents",
                   entries_created |-> 0]]
    ELSE FinishBuild(pubs, {}, tdf, Len(pubs))

\* Mutant of DistinctPublications: no other publication is counted.
DistinctPublicationsNone(table, term) == 0

\* Mutant of DistinctPublications: the publications of the rows of any term.
DistinctPublicationsAnyTerm(table, term) ==
    Cardinality({r.publication_id : r \in table})

\* InvertedIndexEntry.objects.filter(term=term).values('publication')
\*     .distinct().count()
DistinctPublications(table, term) ==
    Cardinality({r.publication_id : r \in {x \in table : x.term = term}})

\* Mutant of UpdateIndex: the rows of d are not deleted first; a row of d is
\* replaced when its term is created again and stays otherwise.
UpdateIndexKeepRows(pubs, table, d) ==
    LET tokens    == preprocess_text(Content(pubs[d]))
        term_freq == CountInto(EmptyCounts, tokens)
        kept      == {r \in table : r.publication_id # d
                                     \/ r.term \notin DOMAIN term_freq}
        entries   ==
            { InvertedIndexEntry(
                  t, d,
                  TfIdf(term_freq[t], Len(pubs),
                        DistinctPublications(
                            {r \in table : r.publication_id # d}, t) + 1),
                  term_freq[t]) : t \in DOMAIN term_freq }
    IN  [store |-> [pubs EXCEPT ![d].searchable_content = tokens],
         index |-> kept \cup entries,
         ret |-> [op |-> "update_index", status |-> "success",
                  publication_id |-> d,
                  entries_created |-> Cardinality(entries)]]

\* Mutant of UpdateIndex: the whole index is built again.
UpdateIndexByRebuild(pubs, table, d) ==
    LET r == FinishBuild(pubs, {}, EmptyCounts, Len(pubs))
    IN  [store |-> r.store,
         index |-> r.index,
         ret |-> [op |-> "update_index", status |-> "success",
                  publication_id |-> d,
                  entries_created |->
                      Cardinality({x \in r.index : x.publication_id = d})]]

\* update_index(publication) for the publication with id d.
UpdateIndex(pubs, table, d) ==
    LET kept       == {r \in table : r.publication_id # d}
        total_docs == Len(pubs)
        tokens     == preprocess_text(Content(pubs[d]))
        term_freq  == CountInto(EmptyCounts, tokens)
        entries    ==
            { InvertedIndexEntry(
                  t, d,
                  TfIdf(term_freq[t], total_docs,
                        DistinctPublications(kept, t) + 1),
                  term_freq[t]) : t \in DOMAIN term_freq }
        made       == BulkCreate(kept, entries)
    IN  [store |-> [pubs EXCEPT ![d].searchable_content = tokens],
         index |-> made.table,
         ret |-> IF made.ok
                 THEN [op |-> "update_index", status |-> "success",
                       publication_id |-> d,
                       entries_created |-> Cardinality(entries)]
                 ELSE [op |-> "update_index", status |-> "IntegrityError",
                       publication_id |-> d]]

(***************************************************************************)
(* SearchEngine (search.py).                                               *)
(***************************************************************************)
\* self.min_score_threshold = 0.01, in millionths.
min_score_threshold == 10000

\* self.max_results
max_results == 500

\* round(score, 4) of a score in millionths.
Round4(score) == ((score + 50) \div 100) * 100

\* seq[:k] of Python: a negative k counts from the end.
Prefix(seq, k) ==
    LET n == IF k >= 0 THEN Min(k, Len(seq)) ELSE Max(Len(seq) + k, 0)
    IN  SubSeq(seq, 1, n)

\* Mutant of MatchingEntries: no filter on the term.
MatchingEntriesAll(table, query_tokens) == table

\* InvertedIndexEntry.objects.filter(term__in=query_tokens)
MatchingEntries(table, query_tokens) ==
    {r \in table : r.term \in Range(query_tokens)}

\* Mutant of DocScores: the weight of one matching row, not the sum.
DocScoresOneRow(matching) ==
    [d \in {r.publication_id : r \in matching} |->
        (CHOOSE r \in matching : r.publication_id = d).tfidf_score]

\* doc_scores: for each publication of a matching row, the sum of the
\* tfidf_score of its matching rows.
DocScores(matching) ==
    LET docs == {r.publication_id : r \in matching}
        weight == [r \in matching |-> r.tfidf_score]
    IN  [d \in docs |->
            SumOver(weight, {r \in matching : r.publication_id = d})]

\* Mutant of FilteredDocs: the minimum score is 0.
FilteredDocsNonNegative(doc_scores) ==
    {d \in DOMAIN doc_scores : doc_scores[d] >= 0}

\* Mutant of FilteredDocs: no minimum score.
FilteredDocsAll(doc_scores) == DOMAIN doc_scores

\* filtered_docs: the publications whose score reaches the threshold.
FilteredDocs(doc_scores) ==
    {d \in DOMAIN doc_scores : doc_scores[d] >= min_score_threshold}

\* Mutant of InsertByScore: the dict order is kept, nothing is sorted.
InsertLast(sorted, d, doc_scores) == Append(sorted, d)

RECURSIVE InsertByScore(_, _, _)
\* d put into a list sorted by score descending, after the entries whose score
\* is not smaller (sorted(..., reverse=True) is stable).
InsertByScore(sorted, d, doc_scores) ==
    IF sorted = <<>> THEN <<d>>
    ELSE IF doc_scores[Head(sorted)] >= doc_scores[d]
         THEN <<Head(sorted)>> \o InsertByScore(Tail(sorted), d, doc_scores)
         ELSE <<d>> \o sorted

RECURSIVE SortedDocs(_, _)
\* sorted(filtered_docs.items(), key=score, reverse=True) of the items in
\* the order `items` (the insertion order of the dict).
SortedDocs(items, doc_scores) ==
    IF items = <<>> THEN <<>>
    ELSE InsertByScore(
             SortedDocs(SubSeq(items, 1, Len(items) - 1), doc_scores),
             items[Len(items)], doc_scores)

\* The orders in which a dict can hold the keys of S: the rows of the query
\* come in no stated order (no ORDER BY), a key enters at its first row.
Orders(S) ==
    {o \in [1 .. Cardinality(S) -> S] : \A d \in S : \E i \in DOMAIN o : o[i] = d}

\* The result list for one order of the rows: (id, relevance_score) pairs.
ResultList(order, doc_scores, top_n) ==
    LET sorted == Prefix(SortedDocs(order, doc_scores),
                         Min(top_n, max_results))
    IN  [i \in DOMAIN sorted |->
            [id |-> sorted[i],
             relevance_score |-> Round4(doc_scores[sorted[i]])]]

\* search(query, top_n): the lists it can return on the index `table`.
Search(table, query, top_n) ==
    LET query_tokens == preprocess_text(query)
        matching     == MatchingEntries(table, query_tokens)
        doc_scores   == DocScores(matching)
        filtered     == FilteredDocs(doc_scores)
    IN  IF query = <<>> THEN {<<>>}
        ELSE IF query_tokens = <<>> THEN {<<>>}
        ELSE IF matching = {} THEN {<<>>}
        ELSE IF filtered = {} THEN {<<>>}
        ELSE {ResultList(o, doc_scores, top_n) : o \in Orders(filtered)}

(***************************************************************************)
(* The search endpoint (views.py).                                         *)
(***************************************************************************)
\* search_engine.search(query, top_n=500)
view_top_n == 500

\* seq[start:end] of Python: a negative bound counts from the end, a bound
\* past the end is the end.
Slice(seq, start, end) ==
    LET lo == IF start >= 0 THEN Min(start, Len(seq))
              ELSE Max(Len(seq) + start, 0)
        hi == IF end >= 0 THEN Min(end, Len(seq))
              ELSE Max(Len(seq) + end, 0)
    IN  IF hi <= lo THEN <<>> ELSE SubSeq(seq, lo + 1, hi)

(***************************************************************************)
(* SearchCache (search.py).                                                *)
(***************************************************************************)
\* @lru_cache(maxsize=100) on get_cached_search
lru_maxsize == 100

\* tuple(pub.id for pub in results)
Ids(results) == [i \in DOMAIN results |-> results[i].id]

\* The positions of the cache entry of (query, top_n), if any.
CacheHits(entries, query, top_n) ==
    {i \in DOMAIN entries : entries[i].key = <<query, top_n>>}

\* A hit moves the entry to the most recently used end.
Touch(entries, i) ==
    SubSeq(entries, 1, i - 1) \o SubSeq(entries, i + 1, Len(entries))
        \o <<entries[i]>>

\* A miss stores the value; beyond maxsize the least recently used entry goes.
Store(entries, query, top_n, ids) ==
    LET added == Append(entries, [key |-> <<query, top_n>>, ids |-> ids])
    IN  IF Len(added) > lru_maxsize THEN Tail(added) ELSE added

(***************************************************************************)
(* State.                                                                  *)
(***************************************************************************)
VARIABLES
    store,          \* the Publication table
    index,          \* the InvertedIndexEntry table
    term_doc_freq,  \* self.term_doc_freq of the current IndexBuilder instance
    builds,         \* calls of build_index made on that instance
    ret,            \* what the last completed call returned
    pc,             \* where a build_index in progress stands
    total_docs,     \* total_docs of the build_index in progress
    prior,          \* the index as the build_index in progress found it
    cache,          \* the lru_cache of get_cached_search, oldest entry first
    max_size        \* self.max_size of the current SearchCache instance

vars ==
    <<store, index, term_doc_freq, builds, ret, pc, total_docs, prior, cache,
      max_size>>

\* The raw queries and result counts the callers pass.
Queries ==
    { <<>>, <<"the">>, <<"python">>, <<"programming">>, <<"snake">>,
      <<"python", "programming">>, <<"the", "python", "python">> }

TopNs == {-1, 0, 1, 10}

\* The requests of a reader that runs beside a rebuild, and of the cache.
ReaderQueries == {<<"python">>, <<"python", "programming">>}

ReaderTopNs == {10}

\* The requests made to a SearchCache: two raw queries with the same token
\* sequence, two result counts.
CacheQueries == {<<"python">>, <<"the", "python">>}

CacheTopNs == {1, 10}

\* The abstracts a stored publication is saved with when it is edited.
EditedAbstracts == {<<>>, <<"programming">>}

\* The query, page and size parameters of the requests to the endpoint.
PageQueries == {<<>>, <<"programming">>, <<"python", "programming">>}

Pages == {1, 2, 3}

Sizes == {1, 2}

\* The publications that are edited.
EditedPublications == {1}

\* The max_size arguments SearchCache is constructed with.
MaxSizes == {1, 100}

\* The one-word requests made after an update_index.
UpdateQueries == {<<"python">>, <<"programming">>}

\* The two-word requests made to rank the documents of an updated index.
TwoTermQueries == {<<"python", "programming">>}

Init ==
    /\ store \in {<<>>, ScenarioA}
    /\ index = {}
    /\ term_doc_freq = EmptyCounts
    /\ builds = 0
    /\ ret = [op |-> "none"]
    /\ pc = "idle"
    /\ total_docs = 0
    /\ prior = {}
    /\ cache = <<>>
    /\ max_size = 100

(***************************************************************************)
(* Operations, each as one call.                                           *)
(***************************************************************************)
\* _save_publication: a publication is created unless its title exists.
CreatePublication(p) ==
    /\ Len(store) < MaxDocs
    /\ \A i \in DOMAIN store : store[i].title # p.title
    /\ store' = Append(store, p)
    /\ ret' = [op |-> "create", publication_id |-> Len(store) + 1]
    /\ UNCHANGED <<index, term_doc_freq, builds, pc, total_docs, prior, cache,
                   max_size>>

\* import_publications --clear: Publication.objects.all().delete()
ClearPublications ==
    /\ store' = <<>>
    /\ index' = Cascade(index, store')
    /\ ret' = [op |-> "clear", publications |-> Len(store)]
    /\ UNCHANGED <<term_doc_freq, builds, pc, total_docs, prior, cache, max_size>>

\* publication.abstract = abstract; publication.save()
SavePublication(d, abstract) ==
    /\ d \in DOMAIN store
    /\ store[d].abstract # abstract
    /\ store' = [store EXCEPT ![d].abstract = abstract]
    /\ ret' = [op |-> "save", publication_id |-> d]
    /\ UNCHANGED <<index, term_doc_freq, builds, pc, total_docs, prior, cache,
                   max_size>>

\* indexer = IndexBuilder()
NewIndexBuilder ==
    /\ pc = "idle"
    /\ builds > 0
    /\ term_doc_freq' = EmptyCounts
    /\ builds' = 0
    /\ UNCHANGED <<store, index, ret, pc, total_docs, prior, cache, max_size>>

\* indexer.build_index() on the current instance.
Build ==
    /\ pc = "idle"
    /\ builds < MaxBuilds
    /\ LET r == BuildIndex(store, index, term_doc_freq) IN
        /\ store' = r.store
        /\ index' = r.index
        /\ term_doc_freq' = r.term_doc_freq
        /\ ret' = r.ret
    /\ builds' = builds + 1
    /\ UNCHANGED <<pc, total_docs, prior, cache, max_size>>

\* IndexBuilder().update_index(publication)
Update(d) ==
    /\ d \in DOMAIN store
    /\ LET r == UpdateIndex(store, index, d) IN
        /\ store' = r.store
        /\ index' = r.index
        /\ ret' = r.ret
    /\ UNCHANGED <<term_doc_freq, builds, pc, total_docs, prior, cache, max_size>>

\* SearchEngine().search(query, top_n)
DoSearch(query, top_n) ==
    /\ \E r \in Search(index, query, top_n) :
          ret' = [op |-> "search", query |-> query, top_n |-> top_n,
                  results |-> r, read |-> index, during |-> pc]
    /\ UNCHANGED <<store, index, term_doc_freq, builds, pc, total_docs,
                   prior, cache, max_size>>

\* SearchCache.get_cached_search(query, top_n)
GetCachedSearch(query, top_n) ==
    /\ LET hits == CacheHits(cache, query, top_n) IN
         IF hits # {}
         THEN LET i == CHOOSE j \in hits : TRUE IN
              /\ cache' = Touch(cache, i)
              /\ ret' = [op |-> "get_cached_search", query |-> query,
                         top_n |-> top_n, ids |-> cache[i].ids, hit |-> TRUE]
         ELSE \E r \in Search(index, query, top_n) :
              /\ cache' = Store(cache, query, top_n, Ids(r))
              /\ ret' = [op |-> "get_cached_search", query |-> query,
                         top_n |-> top_n, ids |-> Ids(r), hit |-> FALSE]
    /\ UNCHANGED <<store, index, term_doc_freq, builds, pc, total_docs, prior,
                   max_size>>

\* SearchCache(max_size): lru_cache keeps the entries of an instance no
\* longer used, but the key holds self and no lookup of the new instance
\* finds them; `cache` are the entries of the current instance.
NewSearchCache(m) ==
    /\ max_size' = m
    /\ cache' = <<>>
    /\ ret' = [op |-> "SearchCache", max_size |-> m]
    /\ UNCHANGED <<store, index, term_doc_freq, builds, pc, total_docs, prior>>

\* GET /api/search/?query=..&page=..&size=..
SearchPublications(query, page, size) ==
    /\ IF query = <<>>
       THEN ret' = [op |-> "search_publications", status |-> 400]
       ELSE \E all_results \in Search(index, query, view_top_n) :
                LET start_idx == (page - 1) * size
                    end_idx   == start_idx + size
                IN  ret' = [op |-> "search_publications", status |-> 200,
                            results |-> Slice(all_results, start_idx, end_idx),
                            total |-> Len(all_results),
                            page |-> page, query |-> query, size |-> size]
    /\ UNCHANGED <<store, index, term_doc_freq, builds, pc, total_docs,
                   prior, cache, max_size>>

(***************************************************************************)
(* build_index in its two database steps, for a rebuild that runs beside   *)
(* other requests: the command makes its own IndexBuilder, counts the      *)
(* publications and deletes the rows; later it scans the publications and  *)
(* creates the rows.                                                       *)
(***************************************************************************)
BeginBuild ==
    /\ pc = "idle"
    /\ term_doc_freq' = EmptyCounts
    /\ builds' = 0
    /\ IF Len(store) = 0
       THEN /\ ret' = [op |-> "build_index", status |-> "no_documents",
                       entries_created |-> 0]
            /\ UNCHANGED <<index, pc, total_docs, prior>>
       ELSE /\ index' = {}
            /\ prior' = index
            /\ total_docs' = Len(store)
            /\ pc' = "cleared"
            /\ UNCHANGED ret
    /\ UNCHANGED <<store, cache, max_size>>

EndBuild ==
    /\ pc = "cleared"
    /\ LET r == FinishBuild(store, index, term_doc_freq, total_docs) IN
        /\ store' = r.store
        /\ index' = r.index
        /\ term_doc_freq' = r.term_doc_freq
        /\ ret' = r.ret
    /\ builds' = builds + 1
    /\ pc' = "idle"
    /\ total_docs' = 0
    /\ prior' = {}
    /\ UNCHANGED <<cache, max_size>>

(***************************************************************************)
(* Specifications.                                                         *)
(***************************************************************************)
\* Index maintenance, one call at a time.
Next ==
    \/ \E p \in Found : CreatePublication(p)
    \/ NewIndexBuilder
    \/ Build
    \/ \E d \in 1 .. Max(MaxDocs, Len(ScenarioA)) : Update(d)

Spec == Init /\ [][Next]_vars

\* Rebuilds and searches, one call at a time.
NextSearch ==
    \/ \E p \in Found : CreatePublication(p)
    \/ NewIndexBuilder
    \/ Build
    \/ \E q \in Queries : \E n \in TopNs : DoSearch(q, n)

SpecSearch == Init /\ [][NextSearch]_vars

\* A rebuild in two steps beside a reader.
NextReader ==
    \/ \E p \in Found : CreatePublication(p)
    \/ BeginBuild
    \/ EndBuild
    \/ \E q \in ReaderQueries : \E n \in ReaderTopNs : DoSearch(q, n)

SpecReader == Init /\ [][NextReader]_vars

\* A rebuild in two steps beside updates.
NextConc ==
    \/ \E p \in Found : CreatePublication(p)
    \/ BeginBuild
    \/ EndBuild
    \/ \E d \in 1 .. Max(MaxDocs, Len(ScenarioA)) : Update(d)

SpecConc == Init /\ [][NextConc]_vars

\* Rebuilds and cached searches, one call at a time.
NextCache ==
    \/ \E p \in Found : CreatePublication(p)
    \/ NewIndexBuilder
    \/ Build
    \/ \E q \in ReaderQueries : \E n \in ReaderTopNs : GetCachedSearch(q, n)

SpecCache == Init /\ [][NextCache]_vars

\* Rebuilds, updates and one-word searches, one call at a time.
NextUpdate ==
    \/ \E p \in Found : CreatePublication(p)
    \/ NewIndexBuilder
    \/ Build
    \/ \E d \in 1 .. Max(MaxDocs, Len(ScenarioA)) : Update(d)
    \/ \E q \in UpdateQueries : \E n \in ReaderTopNs : DoSearch(q, n)

SpecUpdate == Init /\ [][NextUpdate]_vars

\* Rebuilds and the lookups of SearchCache instances, one call at a time.
NextLru ==
    \/ \E p \in Found : CreatePublication(p)
    \/ Build
    \/ \E m \in MaxSizes : NewSearchCache(m)
    \/ \E q \in CacheQueries : \E n \in CacheTopNs : GetCachedSearch(q, n)

SpecLru == Init /\ [][NextLru]_vars

\* Rebuilds, updates and two-word searches, one call at a time.
NextRank ==
    \/ \E p \in Found : CreatePublication(p)
    \/ NewIndexBuilder
    \/ Build
    \/ \E d \in 1 .. Max(MaxDocs, Len(ScenarioA)) : Update(d)
    \/ \E q \in TwoTermQueries : \E n \in ReaderTopNs : DoSearch(q, n)

SpecRank == Init /\ [][NextRank]_vars

\* One rebuild by a new IndexBuilder, and updates, while stored publications
\* are edited.
NextEdit ==
    \/ \E p \in Found : CreatePublication(p)
    \/ \E d \in EditedPublications :
           \E a \in EditedAbstracts : SavePublication(d, a)
    \/ (builds = 0 /\ Build)
    \/ \E d \in 1 .. Max(MaxDocs, Len(ScenarioA)) : Update(d)

SpecEdit == Init /\ [][NextEdit]_vars

\* Rebuilds and requests to the search endpoint, one at a time.
NextPages ==
    \/ \E p \in Found : CreatePublication(p)
    \/ NewIndexBuilder
    \/ Build
    \/ \E q \in PageQueries : \E page \in Pages : \E size \in Sizes :
           SearchPublications(q, page, size)

SpecPages == Init /\ [][NextPages]_vars

\* Rebuilds and searches of every query with the default result count.
NextQuery ==
    \/ \E p \in Found : CreatePublication(p)
    \/ NewIndexBuilder
    \/ Build
    \/ \E q \in Queries : \E n \in ReaderTopNs : DoSearch(q, n)

SpecQuery == Init /\ [][NextQuery]_vars

\* Rebuilds and searches while publications come and are all deleted.
NextEmpty ==
    \/ \E p \in Found : CreatePublication(p)
    \/ ClearPublications
    \/ NewIndexBuilder
    \/ Build
    \/ \E q \in UpdateQueries : \E n \in ReaderTopNs : DoSearch(q, n)

SpecEmpty == Init /\ [][NextEmpty]_vars

(***************************************************************************)
(* What the properties are measured against: the corpus itself.            *)
(***************************************************************************)
\* The normalised token sequence of the stored publication d.
Tokens(d) == preprocess_text(Content(store[d]))

\* The documents of the corpus whose token sequence contains the term t.
Containing(t) == {d \in DOMAIN store : t \in Range(Tokens(d))}

\* The (term, document) pairs of the corpus.
CorpusPairs ==
    UNION { {<<t, d>> : t \in Range(Tokens(d))} : d \in DOMAIN store }

\* The last completed call was a build_index that built the index.
Rebuilt == ret.op = "build_index" /\ ret.status = "success"

\* The step is a complete build_index call.
BuildStep == builds' = builds + 1 /\ ret'.op = "build_index"

\* The query terms that have a posting in document d.
MatchedTerms(d, terms) ==
    {t \in terms : \E r \in index : r.term = t /\ r.publication_id = d}

\* The sum, over the terms, of the weights of the postings of document d.
TermWeights(d, terms) ==
    LET rows == {r \in index : r.publication_id = d /\ r.term \in terms}
    IN  SumOver([r \in rows |-> r.tfidf_score], rows)

\* The corpus is the one of Scenario A.
IsScenarioA ==
    /\ Len(store) = Len(ScenarioA)
    /\ \A d \in DOMAIN store : Content(store[d]) = Content(ScenarioA[d])

(***************************************************************************)
(* Properties.                                                             *)
(***************************************************************************)
\* C1: after every rebuild the document frequency used for a term is the
\* number of documents of the corpus that contain the term at least once.
C1_DocFreqCountsDocuments ==
    Rebuilt =>
        \A t \in DOMAIN term_doc_freq :
            term_doc_freq[t] = Cardinality(Containing(t))

\* C2: a search that runs while a rebuild is in progress reads either the
\* complete index the rebuild found or the complete index it will leave.
C2_ReaderSeesCompleteIndex ==
    (ret.op = "search" /\ ret.during = "cleared") =>
        \/ ret.read = prior
        \/ ret.read = FinishBuild(store, {}, term_doc_freq, total_docs).index

\* C3: a cached lookup returns a ranking the current index gives for its
\* query and result count, also when the pair was cached before the index
\* changed.
C3_CacheFollowsIndex ==
    ret.op = "get_cached_search" =>
        ret.ids \in {Ids(r) : r \in Search(index, ret.query, ret.top_n)}

\* C4: a rebuild that follows a rebuild of the same corpus, on the same
\* IndexBuilder instance or on a new one, leaves the same postings and
\* returns the same counts.
C4_RebuildIdempotent ==
    [][(Rebuilt /\ BuildStep) => (index' = index /\ ret' = ret)]_vars

\* C5: no stored weight is negative, and after a rebuild every document
\* frequency df used satisfies 1 <= df <= N.
C5_WeightsNonNegative ==
    /\ \A r \in index : r.tfidf_score >= 0
    /\ Rebuilt =>
         \A t \in DOMAIN term_doc_freq :
             1 <= term_doc_freq[t] /\ term_doc_freq[t] <= ret.documents_indexed

\* C6: after a rebuild a posting's weight is zero exactly when its term is in
\* every document of the corpus, and strictly positive otherwise.
C6_ZeroWeightIffInEveryDocument ==
    Rebuilt =>
        \A r \in index :
            /\ (r.tfidf_score = 0) <=> (Containing(r.term) = DOMAIN store)
            /\ Containing(r.term) # DOMAIN store => r.tfidf_score > 0

\* C7: after a rebuild the postings are exactly the (term, document) pairs of
\* the corpus, one row each, with the term's number of occurrences in the
\* document as term frequency.
C7_PostingsMatchCorpus ==
    Rebuilt =>
        /\ {<<r.term, r.publication_id, r.term_frequency>> : r \in index}
             = {<<p[1], p[2], Occurrences(Tokens(p[2]), p[1])>> :
                    p \in CorpusPairs}
        /\ Cardinality(index) = Cardinality(CorpusPairs)

\* C7 witness: a rebuilt corpus of two documents, one without any token, the
\* other with a term that occurs twice.
C7_Witness ==
    /\ Rebuilt
    /\ Len(store) >= 2
    /\ \E d \in DOMAIN store : Tokens(d) = <<>>
    /\ \E r \in index : r.term_frequency >= 2

\* C8: the index holds at most one posting for each (term, document) pair.
C8_OnePostingPerPair ==
    \A r1 \in index : \A r2 \in index : SameKey(r1, r2) => r1 = r2

\* C8 witness: after a rebuild, an update has replaced the postings of a
\* document that was already indexed, beside the postings of other documents.
C8_Witness ==
    /\ ret.op = "update_index"
    /\ ret.status = "success"
    /\ builds >= 1
    /\ ret.entries_created >= 2
    /\ Cardinality(index) > ret.entries_created

\* C9: after a rebuild, a search for a query whose only term is in exactly one
\* document returns exactly that document, with a positive score, whatever
\* the term's frequency in that document.  Stated for a corpus of two or more
\* documents, where ln(N / 1) is positive.
C9_UniqueTermFindsItsDocument ==
    [][(/\ Rebuilt
        /\ Len(store) >= 2
        /\ ret'.op = "search"
        /\ ret'.top_n >= 1
        /\ Cardinality(Range(preprocess_text(ret'.query))) = 1
        /\ \A t \in Range(preprocess_text(ret'.query)) :
               Cardinality(Containing(t)) = 1)
       => (/\ Len(ret'.results) = 1
           /\ \A t \in Range(preprocess_text(ret'.query)) :
                  ret'.results[1].id \in Containing(t)
           /\ ret'.results[1].relevance_score > 0)]_vars

\* The step is search("python programming", 10) right after a rebuild of the
\* corpus of Scenario A.
ScenarioASearchStep ==
    /\ Rebuilt
    /\ IsScenarioA
    /\ ret'.op = "search"
    /\ ret'.query = <<"python", "programming">>
    /\ ret'.top_n = 10

UpdateSearchStep ==
    /\ builds >= 1
    /\ ret.op = "update_index"
    /\ ret.status = "success"
    /\ ret'.op = "search"
    /\ ret'.top_n >= 1
    /\ Cardinality(Range(preprocess_text(ret'.query))) = 1
    /\ \A t \in Range(preprocess_text(ret'.query)) :
           Containing(t) = {ret.publication_id}

\* C11 as stated: after a rebuild and an update_index of a document, a search
\* for a term that only this document contains returns it, whatever the
\* number of documents at the time of the update.
C11_UpdatedDocumentFound ==
    [][UpdateSearchStep => Ids(ret'.results) = <<ret.publication_id>>]_vars

\* C11 amended: the same for a corpus of two or more documents at the time
\* of the update; the document is the only result and its score is positive.
C11_UpdatedDocumentFoundAmongTwo ==
    [][(UpdateSearchStep /\ Len(store) >= 2)
       => (/\ Ids(ret'.results) = <<ret.publication_id>>
           /\ ret'.results[1].relevance_score > 0)]_vars

\* C11 witness: document 1 was indexed by a rebuild when it was alone (its
\* own term weighs 0), document 2 came later and was indexed by update_index
\* only, and the search for its own term has returned it.
C11_Witness ==
    /\ Len(store) = 2
    /\ ret.op = "search"
    /\ Ids(ret.results) = <<2>>
    /\ \A t \in Range(preprocess_text(ret.query)) : Containing(t) = {2}
    /\ \E r \in index : r.publication_id = 1 /\ r.tfidf_score = 0
                          /\ Containing(r.term) = {1}
    /\ \E r \in index : r.publication_id = 2

\* C12: build_index on an empty corpus returns the status no_documents with
\* zero entries created, and every search made while the corpus is empty
\* returns the empty list.
C12_EmptyCorpusNoDocuments ==
    [][/\ (BuildStep /\ Len(store) = 0)
          => (ret'.status = "no_documents" /\ ret'.entries_created = 0)
       /\ (Len(store) = 0 /\ ret'.op = "search")
          => ret'.results = <<>>]_vars

\* C12 witness: the IndexBuilder has run build_index on no publication only,
\* and a search made on the empty corpus has returned the empty list.
C12_Witness ==
    /\ Len(store) = 0
    /\ builds >= 1
    /\ term_doc_freq = EmptyCounts
    /\ ret.op = "search"
    /\ ret.query = <<"python">>
    /\ ret.results = <<>>

C14_RepeatedLookupAgrees ==
    ret.op = "get_cached_search" =>
        /\ \E i \in CacheHits(cache, ret.query, ret.top_n) :
               cache[i].ids = ret.ids
        /\ ret.ids \in {Ids(r) : r \in Search(index, ret.query, ret.top_n)}

\* C15: a SearchCache never holds more entries than the max_size it was
\* constructed with.
C15_CacheWithinMaxSize == Len(cache) <= max_size

\* C16: a lookup made right after a lookup of a raw query with the same
\* token sequence and the same result count finds that lookup's entry: the
\* two share one cache entry.
C16_KeyIsNormalizedQuery ==
    [][(/\ ret.op = "get_cached_search"
        /\ ret'.op = "get_cached_search"
        /\ preprocess_text(ret'.query) = preprocess_text(ret.query)
        /\ ret'.top_n = ret.top_n)
       => (ret'.hit /\ Len(cache') = Len(cache))]_vars

\* C17: search returns the empty list when the query is blank, when it
\* normalizes to no token, and when none of its terms is in the index.
C17_NoMatchReturnsEmpty ==
    [][(/\ ret'.op = "search"
        /\ \/ ret'.query = <<>>
           \/ preprocess_text(ret'.query) = <<>>
           \/ \A t \in Range(preprocess_text(ret'.query)) :
                  \A r \in index : r.term # t)
       => ret'.results = <<>>]_vars

\* C17 witness: a search for a term that no posting of a non-empty index
\* holds has returned the empty list.
C17_Witness ==
    /\ ret.op = "search"
    /\ ret.query = <<"snake">>
    /\ ret.read # {}
    /\ \E r \in ret.read : r.tfidf_score >= min_score_threshold
    /\ \A r \in ret.read : r.term # "snake"
    /\ ret.results = <<>>

\* C18: the score of a returned document is the sum, over the distinct
\* query terms, of the weights of its postings; a query that repeats a token
\* gives what the query with the same distinct terms gives.
C18_ScoreIsSumOverDistinctTerms ==
    [][ret'.op = "search"
       => LET terms == Range(preprocess_text(ret'.query)) IN
          /\ \A i \in DOMAIN ret'.results :
                 ret'.results[i].relevance_score
                     = Round4(TermWeights(ret'.results[i].id, terms))
          /\ \A q \in Queries \ {ret'.query} :
                 Range(preprocess_text(q)) = terms
                     => ret'.results \in Search(index, q, ret'.top_n)]_vars

\* C18 witness: a query of two terms has returned a document that holds a
\* posting with a positive weight for each of them.
C18_Witness ==
    /\ ret.op = "search"
    /\ ret.query = <<"python", "programming">>
    /\ \E i \in DOMAIN ret.results :
           \A t \in {"python", "program"} :
               \E r \in ret.read : /\ r.term = t
                                   /\ r.publication_id = ret.results[i].id
                                   /\ r.tfidf_score > 0

\* The step is a search with two or more distinct terms and a result count
\* that no corpus of the model exceeds.
MultiTermSearchStep ==
    /\ ret'.op = "search"
    /\ ret'.top_n = 10
    /\ Cardinality(Range(preprocess_text(ret'.query))) >= 2

\* C19 as stated: every document that holds a posting of some query term is
\* returned, and below every returned document that matches more terms.
C19_PartialMatchRankedBelow ==
    [][MultiTermSearchStep
       => LET terms == Range(preprocess_text(ret'.query))
              ids   == Ids(ret'.results)
          IN  /\ \A d \in DOMAIN store :
                     MatchedTerms(d, terms) # {} => d \in Range(ids)
              /\ \A i \in DOMAIN ids : \A j \in DOMAIN ids :
                     Cardinality(MatchedTerms(ids[i], terms))
                         > Cardinality(MatchedTerms(ids[j], terms))
                     => i < j]_vars

\* C19 amended: a document is returned exactly when it holds a posting of
\* some query term and the sum of its matching weights reaches the
\* threshold, whether it matches all terms or not; the returned documents
\* are ordered by that sum, descending.
C19_PartialMatchRankedByScore ==
    [][MultiTermSearchStep
       => LET terms == Range(preprocess_text(ret'.query))
              ids   == Ids(ret'.results)
          IN  /\ \A d \in DOMAIN store :
                     d \in Range(ids)
                     <=> /\ MatchedTerms(d, terms) # {}
                         /\ TermWeights(d, terms) >= min_score_threshold
              /\ \A i \in DOMAIN ids : \A j \in DOMAIN ids :
                     i < j => TermWeights(ids[i], terms)
                                  >= TermWeights(ids[j], terms)]_vars

\* C19 witness: a two-term query has returned two documents that match one
\* term each, the second with the lower score.
C19_Witness ==
    /\ ret.op = "search"
    /\ ret.query = <<"python", "programming">>
    /\ Len(ret.results) = 2
    /\ ret.results[1].relevance_score > ret.results[2].relevance_score
    /\ \A i \in DOMAIN ret.results :
           Cardinality(MatchedTerms(ret.results[i].id,
                                    {"python", "program"})) = 1

\* C20: the results are ordered by score descending and, among equal
\* scores, by document id ascending.
C20_TiesByIdAscending ==
    [][ret'.op = "search"
       => LET terms == Range(preprocess_text(ret'.query))
              ids   == Ids(ret'.results)
          IN  \A i \in DOMAIN ids : \A j \in DOMAIN ids :
                  i < j =>
                      \/ TermWeights(ids[i], terms) > TermWeights(ids[j], terms)
                      \/ /\ TermWeights(ids[i], terms)
                             = TermWeights(ids[j], terms)
                         /\ ids[i] < ids[j]]_vars

\* C21: every document search returns has an aggregate score of at least
\* min_score_threshold, and with a result count that truncates nothing every
\* document with a matching posting and such a score is returned.
C21_ThresholdKeepsExactly ==
    [][ret'.op = "search"
       => LET terms == Range(preprocess_text(ret'.query))
              ids   == Ids(ret'.results)
          IN  /\ \A i \in DOMAIN ids :
                     /\ TermWeights(ids[i], terms) >= min_score_threshold
                     /\ ret'.results[i].relevance_score >= min_score_threshold
              /\ ret'.top_n >= Len(store)
                     => \A d \in DOMAIN store :
                            (/\ MatchedTerms(d, terms) # {}
                             /\ TermWeights(d, terms) >= min_score_threshold)
                            => d \in Range(ids)]_vars

\* C21 witness: a search has returned a document and left out another one
\* that holds a posting of a query term, with a weight below the threshold.
C21_Witness ==
    /\ ret.op = "search"
    /\ ret.query = <<"python", "programming">>
    /\ ret.top_n = 10
    /\ Len(ret.results) >= 1
    /\ \E r \in ret.read :
           /\ r.term = "python"
           /\ r.tfidf_score < min_score_threshold
           /\ r.publication_id \notin Range(Ids(ret.results))

\* C22: search returns at most min(top_n, max_results) documents, none for a
\* top_n of zero or less, and what it returns is the head of the ranking: no
\* qualifying document left out scores strictly higher than a returned one.
C22_TruncatesToLimit ==
    [][ret'.op = "search"
       => LET terms == Range(preprocess_text(ret'.query))
              ids   == Ids(ret'.results)
          IN  /\ Len(ids) <= Max(0, Min(ret'.top_n, max_results))
              /\ \A d \in DOMAIN store \ Range(ids) :
                     (/\ MatchedTerms(d, terms) # {}
                      /\ TermWeights(d, terms) >= min_score_threshold)
                     => \A i \in DOMAIN ids :
                            TermWeights(d, terms)
                                <= TermWeights(ids[i], terms)]_vars

\* C23: no exception escapes build_index or update_index: a call that ends
\* has returned a result, and none ends with the IntegrityError of
\* bulk_create.
C23_NoExceptionEscapes ==
    ret.op \in {"build_index", "update_index"}
        => ret.status \in {"success", "no_documents"}

\* C24: every build_index returns status, documents_indexed, entries_created
\* and unique_terms, with the number of documents of the corpus, the number
\* of postings in the index and the number of distinct terms in the index.
C24_RebuildResultFields ==
    ret.op = "build_index" =>
        /\ {"status", "documents_indexed", "entries_created", "unique_terms"}
               \subseteq DOMAIN ret
        /\ ret.documents_indexed = Len(store)
        /\ ret.entries_created = Cardinality(index)
        /\ ret.unique_terms = Cardinality({r.term : r \in index})

\* The step is the end of a build_index that ran in two steps.
EndBuildStep == pc = "cleared" /\ pc' = "idle"

\* C27: a build_index that fails after its start leaves in the index a
\* posting for every (term, document) pair that had one when the build began.
C27_FailedRebuildKeepsPrior ==
    [][(EndBuildStep /\ ret'.status # "success")
       => {<<r.term, r.publication_id>> : r \in prior}
              \subseteq {<<r.term, r.publication_id>> : r \in index'}]_vars

\* C29: whatever update_index calls run between the two steps of a
\* build_index, its bulk_create meets no existing (term, document) pair: the
\* build completes and the index holds a posting for every pair of the
\* corpus.
C29_InterleavedRebuildCompletes ==
    [][EndBuildStep
       => (/\ ret'.status = "success"
           /\ {<<r.term, r.publication_id>> : r \in index'}
                  = CorpusPairs)]_vars

\* The step is an update_index that has created its rows.
UpdateStep == ret'.op = "update_index" /\ ret'.status = "success"

\* C25: update_index weighs every term of the document with a document
\* frequency of one plus the number of other documents that hold a posting
\* of the term, and with the number of stored publications as corpus size.
C25_UpdateDocumentFrequency ==
    [][UpdateStep
       => \A r \in index' :
              r.publication_id = ret'.publication_id
              => r.tfidf_score
                     = r.term_frequency
                       * (LnTable[Len(store)]
                          - LnTable[Cardinality(
                                {x.publication_id :
                                    x \in {y \in index :
                                        /\ y.term = r.term
                                        /\ y.publication_id
                                               # ret'.publication_id}}) + 1])
      ]_vars

\* C25 witness: an update_index has weighed a term that occurs twice in its
\* document and that another document holds a posting of.
C25_Witness ==
    /\ ret.op = "update_index"
    /\ ret.status = "success"
    /\ Len(store) >= 2
    /\ \E r \in index : \E x \in index :
           /\ r.publication_id = ret.publication_id
           /\ r.term_frequency >= 2
           /\ x.publication_id # ret.publication_id
           /\ x.term = r.term

\* C26: after update_index the postings of the document are the distinct
\* terms of its present token sequence, each with its number of occurrences,
\* and entries_created is their number.
C26_UpdatePostingsMatchDocument ==
    (ret.op = "update_index" /\ ret.status = "success") =>
        LET d    == ret.publication_id
            rows == {r \in index : r.publication_id = d}
        IN  /\ {<<r.term, r.term_frequency>> : r \in rows}
                   = {<<t, Occurrences(Tokens(d), t)>> :
                          t \in Range(Tokens(d))}
            /\ ret.entries_created = Cardinality(rows)

\* C26 witness: an update_index has run on a document that a build_index had
\* indexed with a term (the builder counted it) that no document contains any
\* more.
C26_Witness ==
    /\ ret.op = "update_index"
    /\ ret.status = "success"
    /\ ret.entries_created >= 1
    /\ Len(store) = 1
    /\ \E t \in DOMAIN term_doc_freq : Containing(t) = {}

\* C28: update_index leaves the postings of every other document as they
\* were.
C28_UpdateLeavesOtherDocuments ==
    [][ret'.op = "update_index"
       => {r \in index' : r.publication_id # ret'.publication_id}
              = {r \in index : r.publication_id # ret'.publication_id}]_vars

\* C28 witness: after an update_index, another document holds a posting of a
\* term of the updated document with a weight per occurrence that differs
\* from the one just computed.
C28_Witness ==
    /\ ret.op = "update_index"
    /\ ret.status = "success"
    /\ \E r \in index : \E x \in index :
           /\ r.publication_id = ret.publication_id
           /\ x.publication_id # ret.publication_id
           /\ x.term = r.term
           /\ x.tfidf_score * r.term_frequency
                  # r.tfidf_score * x.term_frequency

\* The endpoint has answered the request with a page of results.
PageReturned(r) == r.op = "search_publications" /\ r.status = 200

\* C30: a page holds the results at ranks (page - 1) * size + 1 to
\* page * size of a ranking of the query, total is the length of that
\* ranking, and the pages of one query and size share no result: a request
\* for another page, made right after, returns none of the documents of the
\* page before.
C30_PagesPartitionRanking ==
    [][PageReturned(ret')
       => /\ \E ranking \in Search(index, ret'.query, view_top_n) :
                 /\ ret'.total = Len(ranking)
                 /\ ret'.results
                        = [i \in 1 .. Max(0, Min(ret'.size,
                                 Len(ranking) - (ret'.page - 1) * ret'.size))
                              |-> ranking[(ret'.page - 1) * ret'.size + i]]
          /\ (/\ PageReturned(ret)
               /\ ret.query = ret'.query
               /\ ret.size = ret'.size
               /\ ret.page # ret'.page)
              => Range(Ids(ret.results)) \cap Range(Ids(ret'.results)) = {}
      ]_vars

====
